---------------------------- MODULE Spec2Model ----------------------------
(***************************************************************************)
(* A model of the GraphQL API test harness: the health check and the      *)
(* GraphQLClient of conftest.py, the request/response record it fills for *)
(* the HTML report, and the SchemaValidator of utils/schema_validator.py. *)
(*                                                                         *)
(* Conventions.  A Python value that may be None is a set with at most    *)
(* one element ({} is None).  Strings whose characters the code inspects  *)
(* (the bearer token, the query text) are sequences of one-character      *)
(* strings.  A response body is its raw text; json() is the table         *)
(* JsonLoads.                                                              *)
(***************************************************************************)
EXTENDS Integers, Sequences, FiniteSets, TLC

VARIABLES
    entry,          \* "pytest": a pytest session; "import": conftest imported and the client used directly
    API_URL,        \* os.getenv('API_URL')
    BEARER_TOKEN,   \* os.getenv('BEARER_TOKEN')
    phase,          \* "start", "configured" (health check passed), "exited" (pytest.exit)
    client,         \* the GraphQLClient object of the session, once constructed
    initError,      \* the exception GraphQLClient() raised, if it did
    request_data,   \* the module-level GraphQLRequestData
    logged,         \* the header lines execute_query printed in its last call
    lastPost,       \* the last HTTP POST put on the wire
    lastResponse,   \* the response the last execute_query call received, if any
    result,         \* how the last execute_query call ended
    lastCall,       \* the arguments of the last execute_query call
    lastOp,         \* the last operation of the running test: which, on what file, whether it posted
    inTest,         \* a test function is running (between its setup and its call report)
    testRequested,  \* the running (or last) test called execute_query
    report_extra,   \* report.extra of the last call-phase report
    files,          \* the schemas directory: schema name -> the text of <name>.json, if it exists
    schema_cache,   \* SchemaValidator.schema_cache: schema name -> the cached schema, if any
    opens,          \* per schema name: how many times its file was opened
    loads,          \* per schema name: how many times its file was read and parsed to the end
    svResult,       \* the last SchemaValidator call and how it ended
    svCalls,        \* number of SchemaValidator calls so far
    writes,         \* number of changes made to the schemas directory so far
    qText,          \* the text handed to is_valid_graphql_query
    qResult,        \* what is_valid_graphql_query returned for it, once called
    mPhase,         \* the metrics plugin's session: "start", "session" or "aborted"
    metrics,        \* config._graphql_metrics, or {} before pytest_configure
    item,           \* the test item the runner is on, and the phase it is in
    nTests,         \* test items started in the session
    artifacts,      \* the error artifacts written, in order
    lastReport      \* the last phase report: the test's own outcome and the reported one

clientVars == <<entry, API_URL, BEARER_TOKEN, phase, client, initError, request_data,
                logged, lastPost, lastResponse, result, lastCall, lastOp, inTest,
                testRequested, report_extra>>
svVars == <<files, schema_cache, opens, loads, svResult, svCalls, writes>>
qVars == <<qText, qResult>>
mVars == <<mPhase, metrics, item, nTests, artifacts, lastReport>>
restVars == <<qVars, mVars>>
vars == <<clientVars, svVars, restVars>>

-----------------------------------------------------------------------------
(* Bounds *)

MaxSvCalls == 3     \* SchemaValidator calls in a run
MaxWrites == 2      \* changes to the schemas directory in a run
MaxBody == 4        \* characters of a query text after its leading keyword
MaxTests == 2       \* test items in a session of the metrics plugin

-----------------------------------------------------------------------------
(* Strings *)

StartsWith(s, p) == Len(s) >= Len(p) /\ SubSeq(s, 1, Len(p)) = p

BearerPrefix == <<"B", "e", "a", "r", "e", "r", " ">>
QueryPrefix == <<"q", "u", "e", "r", "y", " ">>
TokenHidden == <<"<token-hidden>">>

\* Python truthiness of an optional string: None and '' are false.
Truthy(opt) == opt # {} /\ \A s \in opt : Len(s) > 0

Whitespace == {" ", "\n"}

\* str.strip(): drop the whitespace at both ends.
RECURSIVE LStrip(_)
LStrip(s) == IF s # << >> /\ Head(s) \in Whitespace THEN LStrip(Tail(s)) ELSE s
RECURSIVE RStrip(_)
RStrip(s) ==
    IF s # << >> /\ s[Len(s)] \in Whitespace THEN RStrip(SubSeq(s, 1, Len(s) - 1)) ELSE s
Strip(s) == RStrip(LStrip(s))

-----------------------------------------------------------------------------
(* is_valid_graphql_query *)

\* re.sub(r'#.*$', '', query, flags=re.MULTILINE): a match runs from a '#' up to
\* the next newline ('.' does not match it, '$' matches before it), and the
\* newline stays.
RECURSIVE SubComments(_, _)
SubComments(s, inMatch) ==
    IF s = << >> THEN << >>
    ELSE LET c == Head(s) IN
         IF c = "\n" THEN <<c>> \o SubComments(Tail(s), FALSE)
         ELSE IF inMatch \/ c = "#" THEN SubComments(Tail(s), TRUE)
         ELSE <<c>> \o SubComments(Tail(s), FALSE)

KwQuery == <<"q", "u", "e", "r", "y">>
KwMutation == <<"m", "u", "t", "a", "t", "i", "o", "n">>

\* query.startswith(('query', 'mutation', '{'))
StartsLikeQuery(s) ==
    StartsWith(s, KwQuery) \/ StartsWith(s, KwMutation) \/ StartsWith(s, <<"{">>)

\* The brace loop accepting every text whose count ends at zero, with no
\* test of the running count.
RECURSIVE BraceLoopEndOnly(_, _)
BraceLoopEndOnly(s, brace_count) ==
    IF s = << >> THEN brace_count = 0
    ELSE LET c == Head(s)
             n == IF c = "{" THEN brace_count + 1
                  ELSE IF c = "}" THEN brace_count - 1 ELSE brace_count
         IN BraceLoopEndOnly(Tail(s), n)

\* The brace loop: count up on '{', down on '}', False as soon as the count is
\* negative, and at the end whether it is zero.
RECURSIVE BraceLoop(_, _)
BraceLoop(s, brace_count) ==
    IF s = << >> THEN brace_count = 0
    ELSE LET c == Head(s)
             n == IF c = "{" THEN brace_count + 1
                  ELSE IF c = "}" THEN brace_count - 1 ELSE brace_count
         IN IF n < 0 THEN FALSE ELSE BraceLoop(Tail(s), n)

is_valid_graphql_query(query) ==
    LET q == Strip(SubComments(query, FALSE)) IN
    IF ~StartsLikeQuery(q) THEN FALSE ELSE BraceLoop(q, 0)


-----------------------------------------------------------------------------
(* Inputs: the environment, the query texts, the variables, the backend *)

UrlOK == <<"https://api.test/graphql">>
T1 == <<"t", "1">>
T2 == <<"t", "2">>

\* os.getenv gives None ({}) for an unset variable, and '' for an empty one.
EnvUrls == { {}, {UrlOK} }
EnvTokens == { {}, {<< >>}, {T1}, {T2}, {BearerPrefix \o T1} }

Selection == <<"{", "a", "}">>
Q_query == QueryPrefix \o Selection                                 \* query {a}
Q_named == <<"q", "u", "e", "r", "y", "{", "a", "}">>               \* query{a}
Q_mutation == <<"m", "u", "t", "a", "t", "i", "o", "n", " ">> \o Selection
Q_short == Selection                                                \* {a}
Queries == {Q_query, Q_named, Q_mutation, Q_short}

\* A variables mapping is a set of <<name, value>> pairs; the argument is optional.
NoVariables == {}
VariableArgs == { NoVariables, {{}}, {{<<"id", "1">>}} }

Statuses == {200, 204, 301, 400, 500}

B_html == "<html>oops</html>"
B_blank == ""           \* the text kept where there is none
B_empty == "{}"
B_data == "{\"data\": {\"a\": 1}}"
B_errors == "{\"errors\": [{\"message\": \"m\"}]}"
B_strerrors == "{\"errors\": [\"boom\"]}"
B_list == "[]"
B_number == "5"
Texts == {B_html, B_empty, B_data, B_errors, B_strerrors, B_list, B_number}

\* What the network gives a POST: a response, or no response at all.
NoResponse == [ok |-> FALSE, status |-> 0, text |-> B_blank]
Responses == [ok : {TRUE}, status : Statuses, text : Texts]
Network == Responses \cup {NoResponse}

-----------------------------------------------------------------------------
(* JSON *)

\* A parsed JSON value, as far as the code looks into it: its type, the keys
\* of an object and the kind of elements of the list under its "errors" key.
JV(type, keys, errs) == [type |-> type, keys |-> keys, errs |-> errs]
NullJ == JV("null", {}, "absent")

\* response.json(): ok is FALSE where json raises JSONDecodeError.
JsonLoads(text) ==
    CASE text = B_empty     -> [ok |-> TRUE, v |-> JV("object", {}, "absent")]
      [] text = B_data      -> [ok |-> TRUE, v |-> JV("object", {"data"}, "absent")]
      [] text = B_errors    -> [ok |-> TRUE, v |-> JV("object", {"errors"}, "objects")]
      [] text = B_strerrors -> [ok |-> TRUE, v |-> JV("object", {"errors"}, "strings")]
      [] text = B_list      -> [ok |-> TRUE, v |-> JV("array", {}, "absent")]
      [] text = B_number    -> [ok |-> TRUE, v |-> JV("number", {}, "absent")]
      [] OTHER              -> [ok |-> FALSE, v |-> NullJ]

\* Python's  key in v : a key test on a dict, an element test on a list, and
\* a TypeError on a number or None.
InRaises(v) == v.type \in {"number", "null"}
In(key, v) == v.type = "object" /\ key \in v.keys

\* bool(v) of a parsed value.
TruthyJson(v) == CASE v.type = "object" -> v.keys # {}
                   [] v.type = "array"  -> FALSE      \* the only list modelled is []
                   [] v.type = "number" -> TRUE       \* the only number modelled is 5
                   [] OTHER             -> FALSE

\* A stored response body: the parsed value, or the raw text.
JsonBody(v) == [isJson |-> TRUE, text |-> B_blank, v |-> v]
TextBody(text) == [isJson |-> FALSE, text |-> text, v |-> NullJ]

-----------------------------------------------------------------------------
(* GraphQLRequestData and the session headers *)

ContentTypeJson == <<"application/json">>
Headers(auth) == [Authorization |-> auth, ContentType |-> ContentTypeJson]

\* GraphQLRequestData.clear()
Cleared == [request_headers |-> {}, request_payload |-> {}, response_status |-> {},
            response_body |-> {}, graphql_errors |-> {}]

NoClient == [exists |-> FALSE, api_url |-> {}, bearer_token |-> << >>, headers |-> Headers(<< >>)]

\* The payload execute_query builds from its arguments.
PayloadQuery(query) == IF StartsWith(query, QueryPrefix) THEN query ELSE QueryPrefix \o query
PayloadVariables(variables) == IF variables # {} /\ variables # {{}} THEN variables ELSE {}
Payload(query, variables) ==
    [query |-> PayloadQuery(query), variables |-> PayloadVariables(variables)]

\* headers_for_report with the Authorization entry left as the session has it.
HeadersForReportUnredacted(h) == h

\* headers_for_report: a copy of the session headers with the credential replaced.
HeadersForReport(h) == [h EXCEPT !.Authorization = TokenHidden]

\* The header lines execute_query prints.
LoggedHeaders(h) == [k \in DOMAIN h |-> IF k = "Authorization" THEN TokenHidden ELSE h[k]]

\* The session headers after execute_query built headers_for_report from a copy.
SessionHeadersAfter(h) == h

-----------------------------------------------------------------------------
(* execute_query: what it does with the response *)

\* response.raise_for_status() raises HTTPError for 4xx and 5xx only.
RaisesForStatus(status) == status >= 400 /\ status < 600

Return(value, body, errors) ==
    [kind |-> "return", value |-> value, exc |-> "", status |-> 0,
     body |-> body, errors |-> errors]
Raise(exc, status, body, errors) ==
    [kind |-> "raise", value |-> {}, exc |-> exc, status |-> status,
     body |-> body, errors |-> errors]
NoResult == [kind |-> "none", value |-> {}, exc |-> "", status |-> 0,
             body |-> {}, errors |-> {}]

\* The body of the inner try once json() succeeded with v.
HandleJson(status, v) ==
    LET body == {JsonBody(v)} IN
    IF InRaises(v)
    THEN Raise("TypeError", 0, body, {})                \* 'errors' in response_json
    ELSE LET errors == IF In("errors", v) THEN {v.errs} ELSE {} IN
         IF In("errors", v) /\ v.errs = "strings"
         THEN Raise("AttributeError", 0, body, errors)  \* error.get on a str
         ELSE IF status = 400 /\ In("errors", v)
         THEN Return({v}, body, errors)
         ELSE IF RaisesForStatus(status)
         THEN Raise("HTTPError", status, body, errors)  \* the handler stores the same json
         ELSE Return({v}, body, errors)

\* The except json.JSONDecodeError branch; falling off its end returns None.
HandleNotJson(status, text) ==
    IF RaisesForStatus(status)
    THEN Raise("HTTPError", status, {TextBody(text)}, {})
    ELSE Return({}, {TextBody(text)}, {})

HandleResponse(resp) ==
    LET j == JsonLoads(resp.text) IN
    IF j.ok THEN HandleJson(resp.status, j.v) ELSE HandleNotJson(resp.status, resp.text)

-----------------------------------------------------------------------------
(* The session: health check, client construction, queries, reports *)

HealthQuery == <<"{", "__typename", "}">>

Post(by, url, auth, payload) == {[by |-> by, url |-> url, auth |-> auth, payload |-> payload]}

\* The Authorization header check_api_health sends.
HealthAuthorization(token) == token

\* check_api_health's verdict on the response.
HealthOK(net) == net.ok /\ net.status \in {200, 400}

\* pytest_configure: run check_api_health, and pytest.exit when it fails.
pytest_configure ==
    /\ entry = "pytest"
    /\ phase = "start"
    /\ IF ~(Truthy(API_URL) /\ Truthy(BEARER_TOKEN))
       THEN /\ phase' = "exited"
            /\ UNCHANGED lastPost
       ELSE \E net \in Network :
            /\ lastPost' = Post("health", API_URL,
                                HealthAuthorization(CHOOSE t \in BEARER_TOKEN : TRUE),
                                [query |-> HealthQuery, variables |-> {}])
            /\ phase' = IF HealthOK(net) THEN "configured" ELSE "exited"
    /\ UNCHANGED <<entry, API_URL, BEARER_TOKEN, client, initError, request_data, logged,
                   lastResponse, result, lastCall, lastOp, inTest, testRequested,
                   report_extra, svVars, restVars>>

\* The first check of GraphQLClient.__init__: what makes it raise ValueError.
InitRaises(url, token) == ~Truthy(token)

\* "Add Bearer prefix if not present"
WithBearer(token) == IF StartsWith(token, BearerPrefix) THEN token ELSE BearerPrefix \o token

\* GraphQLClient(): by the session-scoped graphql_client fixture once the health
\* check passed, or directly by code that imports the module.
GraphQLClient_init ==
    /\ ~client.exists
    /\ initError = {}
    /\ entry = "import" \/ (entry = "pytest" /\ phase = "configured")
    /\ IF InitRaises(API_URL, BEARER_TOKEN)
       THEN /\ initError' = {"ValueError"}
            /\ UNCHANGED client
       ELSE LET token == WithBearer(CHOOSE t \in BEARER_TOKEN : TRUE) IN
            /\ client' = [exists |-> TRUE, api_url |-> API_URL, bearer_token |-> token,
                          headers |-> Headers(token)]
            /\ UNCHANGED initError
    /\ UNCHANGED <<entry, API_URL, BEARER_TOKEN, phase, request_data, logged, lastPost,
                   lastResponse, result, lastCall, lastOp, inTest, testRequested,
                   report_extra, svVars, restVars>>

\* The file contents the file-driven operations are run on, and the answers
\* the backend gives them.
QueryFiles == { << >>, Q_query \o <<"\n">> }
SampleNetwork == { NoResponse,
                   [ok |-> TRUE, status |-> 200, text |-> B_data],
                   [ok |-> TRUE, status |-> 200, text |-> B_errors],
                   [ok |-> TRUE, status |-> 500, text |-> B_html] }

\* Whether execute_query puts a POST on the wire (session.post got a URL).
Posts == Truthy(client.api_url)

Op(op, file, posted, outcome) ==
    [op |-> op, file |-> file, posted |-> posted, outcome |-> outcome]
NoOp == Op("none", {}, FALSE, "none")

\* The body of execute_query(query, variables) against a network that answers net.
DoExecuteQuery(query, variables, net) ==
    /\ lastCall' = [query |-> query, variables |-> variables]
    /\ logged' = {LoggedHeaders(client.headers)}
    /\ client' = [client EXCEPT !.headers = SessionHeadersAfter(client.headers)]
    /\ testRequested' = TRUE
    /\ LET payload == Payload(query, variables)
           sent == [Cleared EXCEPT !.request_headers = {HeadersForReport(client.headers)},
                                   !.request_payload = {payload}]
       IN
       IF ~Posts
       THEN \* session.post(None) raises MissingSchema before anything is sent
            /\ result' = Raise("MissingSchema", 0, {}, {})
            /\ request_data' = sent
            /\ lastResponse' = {}
            /\ UNCHANGED lastPost
       ELSE /\ lastPost' = Post("client", client.api_url, client.headers.Authorization, payload)
            /\ IF ~net.ok
               THEN /\ result' = Raise("ConnectionError", 0, {}, {})
                    /\ request_data' = sent
                    /\ lastResponse' = {}
               ELSE LET r == HandleResponse(net) IN
                    /\ result' = r
                    /\ lastResponse' = {net}
                    /\ request_data' = [sent EXCEPT !.response_status = {net.status},
                                                    !.response_body = r.body,
                                                    !.graphql_errors = r.errors]

\* client.execute_query(query, variables), called by a test body or by code
\* that imported the module.
execute_query(query, variables, net) ==
    /\ client.exists
    /\ entry = "import" \/ (inTest /\ lastOp.op # "test_graphql_query")
    /\ DoExecuteQuery(query, variables, net)
    /\ lastOp' = Op("execute_query", {}, Posts, "none")
    /\ UNCHANGED <<entry, API_URL, BEARER_TOKEN, phase, initError, inTest, report_extra,
                   svVars, restVars>>

\* client.execute_query_file(query_file) on a file holding `content`.
execute_query_file(content, net) ==
    /\ client.exists
    /\ entry = "import" \/ (inTest /\ lastOp.op # "test_graphql_query")
    /\ DoExecuteQuery(Strip(content), NoVariables, net)
    /\ lastOp' = Op("execute_query_file", {content}, Posts, "none")
    /\ UNCHANGED <<entry, API_URL, BEARER_TOKEN, phase, initError, inTest, report_extra,
                   svVars, restVars>>

\* The assertions of test_graphql_query on what execute_query did: any
\* exception, a value that is no dict, a dict with neither key, and a dict
\* with `errors` all fail the test.
TestVerdict(r) ==
    IF /\ r.kind = "return"
       /\ \E v \in r.value : v.type = "object" /\ In("data", v) /\ ~In("errors", v)
    THEN "passed" ELSE "failed"

\* The body of test_graphql_query for a query file holding `content`: load,
\* assert the structure, and only then execute and assert on the response.
\* It is a whole test function: nothing runs before or after it in its test.
test_graphql_query(content, net) ==
    /\ entry = "pytest"
    /\ inTest
    /\ lastOp = NoOp
    /\ client.exists
    /\ LET query == Strip(content) IN
       IF ~is_valid_graphql_query(query)
       THEN /\ lastOp' = Op("test_graphql_query", {content}, FALSE, "failed")
            /\ UNCHANGED <<lastCall, logged, client, testRequested, result, request_data,
                           lastResponse, lastPost>>
       ELSE /\ DoExecuteQuery(query, NoVariables, net)
            /\ lastOp' = Op("test_graphql_query", {content}, Posts, TestVerdict(result'))
    /\ UNCHANGED <<entry, API_URL, BEARER_TOKEN, phase, initError, inTest, report_extra,
                   svVars, restVars>>

\* bool() of a stored response body.
TruthyBody(b) == IF b.isJson THEN TruthyJson(b.v) ELSE b.text # B_blank

NoExtra == [headers |-> {}, payload |-> {}, status |-> {}, body |-> {}, errors |-> {}]

\* report.extra as the conftest hook builds it from request_data (each entry's
\* content is json.dumps or str of the value kept here).
ExtraOf(rd) ==
    [headers |-> rd.request_headers,
     payload |-> rd.request_payload,
     status  |-> rd.response_status,
     body    |-> {b \in rd.response_body : TruthyBody(b)},
     errors  |-> rd.graphql_errors]

\* A test begins: pytest runs its setup hooks and the test has no call report yet.
pytest_runtest_setup ==
    /\ entry = "pytest"
    /\ phase = "configured"
    /\ ~inTest
    /\ inTest' = TRUE
    /\ testRequested' = FALSE
    /\ lastOp' = NoOp
    /\ report_extra' = NoExtra
    /\ UNCHANGED <<entry, API_URL, BEARER_TOKEN, phase, client, initError, request_data,
                   logged, lastPost, lastResponse, result, lastCall, svVars, restVars>>

\* conftest's pytest_runtest_makereport for the report with when == "call",
\* which ends the test function.
pytest_runtest_makereport ==
    /\ entry = "pytest"
    /\ phase = "configured"
    /\ inTest
    /\ inTest' = FALSE
    /\ report_extra' = ExtraOf(request_data)
    /\ UNCHANGED <<entry, API_URL, BEARER_TOKEN, phase, client, initError, request_data,
                   logged, lastPost, lastResponse, result, lastCall, lastOp, testRequested,
                   svVars, restVars>>

-----------------------------------------------------------------------------
(* SchemaValidator *)

SchemaNames == {"counterparties", "accounts"}

F_corrupt == "{\"type\": "
F_any == "{}"
F_data == "{\"type\": \"object\", \"required\": [\"data\"]}"
F_invalid == "{\"type\": 5}"
FileTexts == {F_corrupt, F_any, F_data, F_invalid}

\* A loaded schema, as far as these schemas use JSON Schema: wellformed is
\* FALSE where jsonschema's check_schema rejects the document.
Schema(wellformed, type, required) ==
    [wellformed |-> wellformed, type |-> type, required |-> required]

\* json.load(f) of a schema file: ok is FALSE where it raises JSONDecodeError.
JsonLoadSchema(text) ==
    CASE text = F_any     -> [ok |-> TRUE, v |-> Schema(TRUE, {}, {})]
      [] text = F_data    -> [ok |-> TRUE, v |-> Schema(TRUE, {"object"}, {"data"})]
      [] text = F_invalid -> [ok |-> TRUE, v |-> Schema(FALSE, {}, {})]
      [] OTHER            -> [ok |-> FALSE, v |-> Schema(FALSE, {}, {})]

\* The response payloads handed to validate_response.
Instances == {JV("object", {"data"}, "absent"), JV("object", {}, "absent"),
              JV("array", {}, "absent")}

\* jsonschema: `type` constrains every instance, `required` only objects.
Validates(instance, schema) ==
    /\ \A t \in schema.type : instance.type = t
    /\ instance.type = "object" => schema.required \subseteq instance.keys

\* str(e) of the ValidationError.
Reason(instance, schema) ==
    IF \E t \in schema.type : instance.type # t
    THEN "[] is not of type 'object'"
    ELSE "'data' is a required property"

\* A validator that never finds a name in its cache.
CachedNever(schema_name) == FALSE

\* `schema_name not in self.schema_cache`, negated.
Cached(schema_name) == schema_cache[schema_name] # {}

\* load_schema(schema_name): how it ends, with the cache and the counters after it.
Load(schema_name) ==
    LET file == files[schema_name]
        same == [cache |-> schema_cache, opens |-> opens, loads |-> loads]
        opened == [opens EXCEPT ![schema_name] = @ + 1]
    IN
    IF Cached(schema_name)
    THEN [exc |-> "", schema |-> schema_cache[schema_name]] @@ same
    ELSE IF file = {}
    THEN [exc |-> "FileNotFoundError", schema |-> {}] @@ same
    ELSE LET j == JsonLoadSchema(CHOOSE t \in file : TRUE) IN
         IF ~j.ok
         THEN [exc |-> "JSONDecodeError", schema |-> {}, cache |-> schema_cache,
               opens |-> opened, loads |-> loads]
         ELSE [exc |-> "", schema |-> {j.v},
               cache |-> [schema_cache EXCEPT ![schema_name] = {j.v}],
               opens |-> opened,
               loads |-> [loads EXCEPT ![schema_name] = @ + 1]]

SvCall(op, name, instance) ==
    [op |-> op, name |-> name, instance |-> instance,
     cached |-> Cached(name), file |-> files[name]]
SvReturn(call, schema, ok, reason) ==
    call @@ [kind |-> "return", exc |-> "", schema |-> schema, ok |-> ok, reason |-> reason]
SvRaise(call, exc) ==
    call @@ [kind |-> "raise", exc |-> exc, schema |-> {}, ok |-> FALSE, reason |-> {}]
NoSvResult ==
    [op |-> "none", name |-> "", instance |-> {}, cached |-> FALSE, file |-> {},
     kind |-> "none", exc |-> "", schema |-> {}, ok |-> FALSE, reason |-> {}]

\* validator.load_schema(schema_name)
load_schema(schema_name) ==
    /\ svCalls < MaxSvCalls
    /\ svCalls' = svCalls + 1
    /\ LET l == Load(schema_name)
           call == SvCall("load_schema", schema_name, {})
       IN
       /\ schema_cache' = l.cache
       /\ opens' = l.opens
       /\ loads' = l.loads
       /\ svResult' = IF l.exc # "" THEN SvRaise(call, l.exc)
                      ELSE SvReturn(call, l.schema, FALSE, {})
    /\ UNCHANGED <<files, writes, clientVars, restVars>>

\* validate_response without its except clause: the ValidationError escapes.
ValidateOutcomeUncaught(call, instance, schema) ==
    IF ~schema.wellformed
    THEN SvRaise(call, "SchemaError")
    ELSE IF Validates(instance, schema)
    THEN SvReturn(call, {}, TRUE, {})
    ELSE SvRaise(call, "ValidationError")

\* The try of validate_response on a loaded schema: validate() checks the schema
\* first (SchemaError is not a ValidationError) and then the instance.
ValidateOutcome(call, instance, schema) ==
    IF ~schema.wellformed
    THEN SvRaise(call, "SchemaError")
    ELSE IF Validates(instance, schema)
    THEN SvReturn(call, {}, TRUE, {})
    ELSE SvReturn(call, {}, FALSE, {Reason(instance, schema)})

\* validator.validate_response(response_data, schema_name)
validate_response(response_data, schema_name) ==
    /\ svCalls < MaxSvCalls
    /\ svCalls' = svCalls + 1
    /\ LET l == Load(schema_name)
           call == SvCall("validate_response", schema_name, {response_data})
       IN
       /\ schema_cache' = l.cache
       /\ opens' = l.opens
       /\ loads' = l.loads
       /\ svResult' = IF l.exc # "" THEN SvRaise(call, l.exc)
                      ELSE ValidateOutcome(call, response_data, CHOOSE x \in l.schema : TRUE)
    /\ UNCHANGED <<files, writes, clientVars, restVars>>

\* The schemas directory changes under the validator: a file is written,
\* replaced or removed.
write_schema_file(schema_name, content) ==
    /\ writes < MaxWrites
    /\ writes' = writes + 1
    /\ files[schema_name] # content
    /\ files' = [files EXCEPT ![schema_name] = content]
    /\ UNCHANGED <<schema_cache, opens, loads, svResult, svCalls, clientVars, restVars>>

InitValidator ==
    /\ schema_cache = [n \in SchemaNames |-> {}]
    /\ opens = [n \in SchemaNames |-> 0]
    /\ loads = [n \in SchemaNames |-> 0]
    /\ svResult = NoSvResult
    /\ svCalls = 0
    /\ writes = 0

InitQuery ==
    /\ qText = << >>
    /\ qResult = {}

-----------------------------------------------------------------------------
(* The metrics plugin (graphql_api_tests/plugin.py) *)

\* The kinds of exception a test phase raises, and call.excinfo: {} is None.
ErrorKinds == {"AssertionError", "HTTPError"}
ExcInfos == {{}} \cup {{k} : k \in ErrorKinds}

\* time.time() - item._start_time, in whole ticks.
Durations == {1, 2}

\* What the hooks read of a test item: its markers and whether it has a
\* `driver` fixture.
Items == [api : BOOLEAN, schema : BOOLEAN, driver : BOOLEAN]

Item(running, id, it, stage) ==
    [running |-> running, id |-> id, api |-> it.api, schema |-> it.schema,
     driver |-> it.driver, stage |-> stage]
NoItem == Item(FALSE, 0, [api |-> FALSE, schema |-> FALSE, driver |-> FALSE], "none")

\* config._graphql_metrics as pytest_configure makes it (start_time is the
\* wall clock and is left out). error_types is a dict whose absent keys are
\* read as 0; it is kept as a count per kind, 0 for an absent key.
NewMetrics ==
    [response_times |-> << >>, total_queries |-> 0, failed_queries |-> 0,
     schema_violations |-> 0, error_types |-> [k \in ErrorKinds |-> 0],
     error_details |-> << >>]

\* The outcome of a phase: what was raised, if anything.
Outcome(excinfo) ==
    [outcome |-> IF excinfo = {} THEN "passed" ELSE "failed", error |-> excinfo]
InternalError(kind) == [outcome |-> "internalerror", error |-> {kind}]

Report(when, id, own, reported, response_time, sections) ==
    [when |-> when, id |-> id, own |-> own, reported |-> reported,
     response_time |-> response_time, sections |-> sections]
NoReport == Report("none", 0, Outcome({}), Outcome({}), {}, 0)

\* error_detail for a test that raised `kind`.
ErrorDetail(it, kind, screenshot) ==
    [test_name |-> it.id, error_type |-> kind, screenshot |-> screenshot]

\* Whether a call phase counts as a failed query.
CountsFailureAnyTest(it, excinfo) == excinfo # {}
CountsFailure(it, excinfo) == it.api /\ excinfo # {}

\* The failure bookkeeping of a call phase that raised `kind`.
RecordFailureFirstOnly(m, it, kind) ==
    [m EXCEPT !.failed_queries = @ + 1,
              !.error_types[kind] = 1,
              !.error_details = Append(@, ErrorDetail(it, kind, FALSE))]
RecordFailure(m, it, kind) ==
    [m EXCEPT !.failed_queries = @ + 1,
              !.error_types[kind] = @ + 1,
              !.error_details = Append(@, ErrorDetail(it, kind, FALSE))]

\* The metrics after the counting part of a call phase, which runs before
\* anything is written.
Counted(m, it, excinfo, elapsed) ==
    LET m1 == [m EXCEPT !.response_times = Append(@, elapsed)]
        m2 == IF it.api THEN [m1 EXCEPT !.total_queries = @ + 1] ELSE m1
    IN IF CountsFailure(it, excinfo)
       THEN RecordFailure(m2, it, CHOOSE k \in excinfo : TRUE)
       ELSE m2

\* The screenshot step: its path is added to the error_detail dict, which is
\* the one already appended to error_details; a failure is caught.
Screenshot(m, it, shotFails) ==
    IF it.driver /\ ~shotFails
    THEN [m EXCEPT !.error_details[Len(m.error_details)].screenshot = TRUE]
    ELSE m

SchemaViolation(m, it, excinfo) ==
    IF it.schema /\ excinfo # {}
    THEN [m EXCEPT !.schema_violations = @ + 1]
    ELSE m

\* The phase after `when` for a test whose phase raised excinfo: a test whose
\* setup raised is not called.
NextStage(when, excinfo) ==
    CASE when = "setup" -> IF excinfo = {} THEN "call" ELSE "teardown"
      [] when = "call" -> "teardown"
      [] OTHER -> "none"

\* pytest_configure of the plugin.
plugin_pytest_configure ==
    /\ mPhase = "start"
    /\ mPhase' = "session"
    /\ metrics' = {NewMetrics}
    /\ artifacts' = << >>
    /\ UNCHANGED <<item, nTests, lastReport, clientVars, svVars, qVars>>

\* pytest_runtest_setup of the plugin, for the next test item.
plugin_pytest_runtest_setup(it) ==
    /\ mPhase = "session"
    /\ ~item.running
    /\ nTests < MaxTests
    /\ nTests' = nTests + 1
    /\ item' = Item(TRUE, nTests + 1, it, "setup")
    /\ UNCHANGED <<mPhase, metrics, artifacts, lastReport, clientVars, svVars, qVars>>

\* pytest_runtest_makereport of the plugin, wrapped around the report of the
\* phase the item is in. excinfo is what the phase raised, elapsed the time
\* since setup; writeFails and shotFails say whether writing the artifact and
\* taking the screenshot raise.
plugin_pytest_runtest_makereport(excinfo, elapsed, writeFails, shotFails) ==
    /\ mPhase = "session"
    /\ item.running
    /\ LET when == item.stage
           own == Outcome(excinfo)
           stage == NextStage(when, excinfo)
       IN
       /\ item' = IF stage = "none" THEN NoItem ELSE [item EXCEPT !.stage = stage]
       /\ IF metrics = {} \/ when # "call"
          THEN /\ lastReport' = Report(when, item.id, own, own, {}, 0)
               /\ UNCHANGED <<mPhase, metrics, artifacts>>
          ELSE LET m == CHOOSE x \in metrics : TRUE
                   counted == Counted(m, item, excinfo, elapsed)
               IN
               IF ~CountsFailure(item, excinfo)
               THEN /\ metrics' = {SchemaViolation(counted, item, excinfo)}
                    /\ lastReport' = Report(when, item.id, own, own, {elapsed}, 0)
                    /\ UNCHANGED <<mPhase, artifacts>>
               ELSE IF writeFails
               THEN \* open() or json.dump raises out of the hook
                    /\ metrics' = {counted}
                    /\ lastReport' = Report(when, item.id, own, InternalError("OSError"),
                                            {elapsed}, 0)
                    /\ mPhase' = "aborted"
                    /\ UNCHANGED artifacts
               ELSE /\ artifacts' = Append(artifacts, counted.error_details[Len(counted.error_details)])
                    /\ metrics' = {SchemaViolation(Screenshot(counted, item, shotFails),
                                                   item, excinfo)}
                    /\ lastReport' = Report(when, item.id, own, own, {elapsed}, 1)
                    /\ UNCHANGED mPhase
    /\ UNCHANGED <<nTests, clientVars, svVars, qVars>>

InitPlugin ==
    /\ mPhase = "start"
    /\ metrics = {}
    /\ item = NoItem
    /\ nTests = 0
    /\ artifacts = << >>
    /\ lastReport = NoReport

-----------------------------------------------------------------------------
(* Specification of the client and its session *)

InitClient ==
    /\ phase = "start"
    /\ client = NoClient
    /\ initError = {}
    /\ request_data = Cleared
    /\ logged = {}
    /\ lastPost = {}
    /\ lastResponse = {}
    /\ result = NoResult
    /\ lastCall = [query |-> << >>, variables |-> {}]
    /\ lastOp = NoOp
    /\ inTest = FALSE
    /\ testRequested = FALSE
    /\ report_extra = NoExtra

Init ==
    /\ entry \in {"pytest", "import"}
    /\ API_URL \in EnvUrls
    /\ BEARER_TOKEN \in EnvTokens
    /\ InitClient
    /\ files = [n \in SchemaNames |-> {}]
    /\ InitValidator
    /\ InitQuery
    /\ InitPlugin

Next ==
    \/ pytest_configure
    \/ GraphQLClient_init
    \/ \E query \in Queries, variables \in VariableArgs, net \in Network :
          execute_query(query, variables, net)
    \/ \E content \in QueryFiles, net \in SampleNetwork : execute_query_file(content, net)
    \/ \E content \in QueryFiles, net \in SampleNetwork : test_graphql_query(content, net)
    \/ pytest_runtest_setup
    \/ pytest_runtest_makereport

Spec == Init /\ [][Next]_vars

-----------------------------------------------------------------------------
(* Specification of the schema validator: one SchemaValidator instance over
   a schemas directory, with no client in the picture *)

FileStates == {{}} \cup {{t} : t \in FileTexts}

InitSV ==
    /\ entry = "import"
    /\ API_URL = {}
    /\ BEARER_TOKEN = {}
    /\ InitClient
    /\ files \in [SchemaNames -> FileStates]
    /\ InitValidator
    /\ InitQuery
    /\ InitPlugin

NextSV ==
    \/ \E schema_name \in SchemaNames : load_schema(schema_name)
    \/ \E response_data \in Instances, schema_name \in SchemaNames :
          validate_response(response_data, schema_name)
    \/ \E schema_name \in SchemaNames, content \in FileStates :
          write_schema_file(schema_name, content)

SpecSV == InitSV /\ [][NextSV]_vars

-----------------------------------------------------------------------------
(* Specification of the structural check: is_valid_graphql_query applied to
   a text over a small alphabet *)

BodyAlphabet == {"{", "}", "#", "\n", " "}
Bodies == UNION {[1..n -> BodyAlphabet] : n \in 0..MaxBody}
Leads == {<< >>, <<" ">>, <<"#">>, <<"#", "q", "\n">>}
Openings == {<< >>, KwQuery, KwMutation, <<"q", "u", "e", "r">>}
QueryTexts == {lead \o opening \o body : lead \in Leads, opening \in Openings, body \in Bodies}

InitQ ==
    /\ entry = "import"
    /\ API_URL = {}
    /\ BEARER_TOKEN = {}
    /\ InitClient
    /\ files = [n \in SchemaNames |-> {}]
    /\ InitValidator
    /\ qText \in QueryTexts
    /\ qResult = {}
    /\ InitPlugin

check_query ==
    /\ qResult = {}
    /\ qResult' = {is_valid_graphql_query(qText)}
    /\ UNCHANGED <<qText, clientVars, svVars, mVars>>

NextQ == check_query

SpecQ == InitQ /\ [][NextQ]_vars

-----------------------------------------------------------------------------
(* Specification of the metrics plugin: one session of test items, each
   taken through its setup, call and teardown reports *)

InitSession ==
    /\ entry = "pytest"
    /\ API_URL = {}
    /\ BEARER_TOKEN = {}
    /\ InitClient
    /\ files = [n \in SchemaNames |-> {}]
    /\ InitValidator
    /\ InitQuery
    /\ InitPlugin

NextPlugin ==
    \/ plugin_pytest_configure
    \/ \E it \in Items : plugin_pytest_runtest_setup(it)
    \/ \E excinfo \in ExcInfos, elapsed \in Durations, writeFails \in BOOLEAN,
          shotFails \in BOOLEAN :
          plugin_pytest_runtest_makereport(excinfo, elapsed, writeFails, shotFails)

SpecPlugin == InitSession /\ [][NextPlugin]_vars

-----------------------------------------------------------------------------
(* Claims about execute_query's result *)

\* The parsed body of a response (NullJ where it is not JSON).
Parsed(r) == JsonLoads(r.text).v
IsJson(r) == JsonLoads(r.text).ok

\* C1: a status-400 response whose body is JSON with an `errors` key is
\* returned to the caller as the parsed envelope, and nothing is raised.
C1_Status400WithErrorsIsReturned ==
    \A r \in lastResponse :
        (r.status = 400 /\ IsJson(r) /\ In("errors", Parsed(r)))
            => (result.kind = "return" /\ result.value = {Parsed(r)})

\* C2: every response whose status is neither 200 nor 400 makes execute_query
\* raise the transport error (HTTPError) carrying that status; nothing is returned.
C2_OtherStatusRaisesTransportError ==
    \A r \in lastResponse :
        r.status \notin {200, 400}
            => (result.kind = "raise" /\ result.exc = "HTTPError" /\ result.status = r.status)

\* C3: a response whose body is not JSON makes execute_query fail with a
\* decode error, for every status; it never returns (in particular not None).
C3_NonJsonBodyRaisesDecodeError ==
    \A r \in lastResponse :
        ~IsJson(r) => (result.kind = "raise" /\ result.exc = "JSONDecodeError")

\* C4: every value execute_query returns is a mapping with the key `data` or
\* the key `errors`.
C4_ReturnedEnvelopeHasDataOrErrors ==
    result.kind = "return"
        => \E v \in result.value : v.type = "object" /\ (In("data", v) \/ In("errors", v))

\* C5: the posted JSON body has `query` equal to the query text exactly as
\* passed, and `variables` equal to the variables passed.
C5_PostedBodyIsQueryAndVariables ==
    \A p \in lastPost :
        p.by = "client"
            => (p.payload.query = lastCall.query /\ p.payload.variables = lastCall.variables)

\* `Bearer ` is a prefix of the header value, and only once.
BearerOnce(auth) ==
    /\ StartsWith(auth, BearerPrefix)
    /\ ~StartsWith(SubSeq(auth, Len(BearerPrefix) + 1, Len(auth)), BearerPrefix)

\* C6: every POST sent, by the health check or by execute_query, carries
\* Authorization: Bearer <token> with the prefix exactly once.
C6_EveryPostCarriesBearerOnce ==
    \A p \in lastPost : BearerOnce(p.auth)

\* The header values recorded and logged by any run, whatever its token.
RedactedHeaders == [Authorization |-> TokenHidden, ContentType |-> ContentTypeJson]

\* C7: the headers recorded in request_data, attached to the report and
\* logged are the same for every bearer token (they hold the placeholder, not
\* the credential), while the session header and every POST of the client
\* carry the real token.
C7_RecordedHeadersHideCredential ==
    /\ \A h \in request_data.request_headers \cup report_extra.headers \cup logged :
          h = RedactedHeaders
    /\ client.exists =>
          /\ client.headers.Authorization = WithBearer(CHOOSE t \in BEARER_TOKEN : TRUE)
          /\ client.headers.Authorization # TokenHidden
    /\ \A p \in lastPost :
          p.by = "client" => p.auth = WithBearer(CHOOSE t \in BEARER_TOKEN : TRUE)

\* C7 witness: a run with the token t2 made a call and its test was
\* reported: the headers recorded, logged and attached are those of any other
\* run, and the POST carried Bearer t2.
C7_Witness ==
    /\ BEARER_TOKEN = {T2}
    /\ request_data.request_headers = {RedactedHeaders}
    /\ report_extra.headers = {RedactedHeaders}
    /\ logged = {RedactedHeaders}
    /\ \E p \in lastPost : p.by = "client" /\ p.auth = BearerPrefix \o T2

\* C8: when the endpoint URL or the bearer token is absent from the
\* environment, no client object exists and the client sends no request.
C8_MissingConfigurationMeansNoClient ==
    (API_URL = {} \/ BEARER_TOKEN = {})
        => (~client.exists /\ \A p \in lastPost : p.by # "client")

-----------------------------------------------------------------------------
(* Claims about the SchemaValidator *)

\* A SchemaValidator call was made in this step.
SvCalled == svCalls' # svCalls

\* C9 as stated: in any sequence of calls the schema file of a name is read
\* at most once.
C9_FileReadAtMostOnce ==
    \A n \in SchemaNames : opens[n] <= 1

\* C9 amended: on one validator, a schema file is read to the end and cached
\* at most once per name: a name is cached exactly when its file was once
\* loaded; once it is cached no call opens the file again or changes the cached
\* content, and load_schema returns that content; and a call whose load fails
\* (the file is missing or does not parse) leaves the cache as it was, so a
\* later call reads the file again.
C9_SchemaLoadedAtMostOnce ==
    /\ [](\A n \in SchemaNames : loads[n] <= 1 /\ (Cached(n) <=> loads[n] = 1))
    /\ [][\A n \in SchemaNames :
            Cached(n) => /\ schema_cache'[n] = schema_cache[n]
                         /\ opens'[n] = opens[n]
                         /\ loads'[n] = loads[n]]_vars
    /\ [][(SvCalled /\ svResult'.op = "load_schema" /\ Cached(svResult'.name))
            => (svResult'.kind = "return" /\ svResult'.schema = schema_cache[svResult'.name])]_vars
    /\ [][(SvCalled /\ svResult'.exc \in {"FileNotFoundError", "JSONDecodeError"})
            => schema_cache' = schema_cache]_vars

\* C9 witness: after a load of "accounts" that failed on a file that would
\* not parse (opened, not cached), "counterparties" was loaded once and the
\* last load_schema call was served from the cache.
C9_Witness ==
    /\ opens["accounts"] = 1 /\ loads["accounts"] = 0 /\ ~Cached("accounts")
    /\ opens["counterparties"] = 1 /\ loads["counterparties"] = 1
    /\ svResult.op = "load_schema" /\ svResult.name = "counterparties"
    /\ svResult.cached /\ svResult.kind = "return"
    /\ svResult.schema = schema_cache["counterparties"]

\* The instance and the schema of the last validate_response call (the schema
\* is the cached one: a name stays cached with the content it was loaded with).
LastInstance == CHOOSE x \in svResult.instance : TRUE
LastSchema == CHOOSE x \in schema_cache[svResult.name] : TRUE

\* What validate_response returns: (True, None) when the response validates,
\* (False, reason) with a reason when it does not.
ReturnsVerdict ==
    (svResult.op = "validate_response" /\ svResult.kind = "return")
        => /\ Cached(svResult.name)
           /\ LastSchema.wellformed
           /\ svResult.ok <=> Validates(LastInstance, LastSchema)
           /\ svResult.ok => svResult.reason = {}
           /\ ~svResult.ok => svResult.reason # {}

\* C10 as stated: validate_response returns the verdict, and raises only when
\* the schema file is missing.
C10_RaisesOnlyWhenSchemaFileMissing ==
    /\ ReturnsVerdict
    /\ (svResult.op = "validate_response" /\ svResult.kind = "raise")
          => (~svResult.cached /\ svResult.file = {})

\* C10 amended: validate_response never raises for a response that does not
\* match: with a schema that loads and is a well-formed schema it returns the
\* verdict.  It raises exactly when the schema cannot be loaded or used: the
\* file is missing, the file is not JSON, or the document is not a valid schema.
C10_RaisesOnlyForUnusableSchema ==
    /\ ReturnsVerdict
    /\ (svResult.op = "validate_response" /\ svResult.kind = "raise")
          => \/ /\ svResult.exc = "FileNotFoundError"
                /\ ~svResult.cached /\ svResult.file = {}
             \/ /\ svResult.exc = "JSONDecodeError"
                /\ ~svResult.cached /\ svResult.file # {}
                /\ \A t \in svResult.file : ~JsonLoadSchema(t).ok
             \/ /\ svResult.exc = "SchemaError"
                /\ Cached(svResult.name) /\ ~LastSchema.wellformed

\* C10 witness: a response that does not match its schema was validated and
\* the call returned (False, reason).
C10_Witness ==
    /\ svResult.op = "validate_response"
    /\ svResult.kind = "return"
    /\ ~svResult.ok
    /\ svResult.reason # {}
    /\ ~Validates(LastInstance, LastSchema)

-----------------------------------------------------------------------------
(* Claims about is_valid_graphql_query *)

\* Position i of s lies in a line comment: a '#' at or before it, with no
\* newline from that '#' up to i.
InComment(s, i) ==
    \E j \in 1..i : s[j] = "#" /\ \A k \in j..i : s[k] # "\n"

\* s without the positions in cs (kept in order).
RECURSIVE Without(_, _, _)
Without(s, cs, i) ==
    IF i > Len(s) THEN << >>
    ELSE (IF i \in cs THEN << >> ELSE <<s[i]>>) \o Without(s, cs, i + 1)

Uncommented(s) == Without(s, {i \in 1..Len(s) : InComment(s, i)}, 1)

\* s from its first to its last character that is not whitespace.
Trimmed(s) ==
    LET ink == {i \in 1..Len(s) : s[i] \notin Whitespace} IN
    IF ink = {} THEN << >>
    ELSE SubSeq(s, CHOOSE i \in ink : \A j \in ink : i <= j,
                   CHOOSE i \in ink : \A j \in ink : i >= j)

\* The brace depth after the first k characters of s.
Depth(s, k) ==
    Cardinality({i \in 1..k : s[i] = "{"}) - Cardinality({i \in 1..k : s[i] = "}"})

WellFormedQuery(text) ==
    LET t == Trimmed(Uncommented(text)) IN
    /\ StartsWith(t, KwQuery) \/ StartsWith(t, KwMutation) \/ StartsWith(t, <<"{">>)
    /\ \A k \in 0..Len(t) : Depth(t, k) >= 0
    /\ Depth(t, Len(t)) = 0

\* C11: is_valid_graphql_query(text) is true exactly when the text, with its
\* line comments removed and trimmed, starts with query, mutation or '{', has
\* a brace depth that is never negative at any prefix, and ends at depth zero.
C11_ValidIffKeywordAndBalanced ==
    \A r \in qResult : r <=> WellFormedQuery(qText)

\* C11 witness: a text with a comment line before the keyword and a brace
\* hidden in a trailing comment was checked and accepted.
C11_Witness ==
    /\ qResult = {TRUE}
    /\ qText = <<"#", "q", "\n">> \o KwQuery \o <<"{", "}", "#", "}">>

-----------------------------------------------------------------------------
\* C12: an operation that executes an empty (or whitespace-only) query file
\* sends no POST for it, whether it is test_graphql_query or
\* execute_query_file.
C12_EmptyFileSendsNoPost ==
    \A content \in lastOp.file : Strip(content) = << >> => ~lastOp.posted

\* C15: the request and response details attached to the report of a test
\* that made no request are empty, whatever earlier tests did.
C15_ReportHoldsOnlyOwnRequests ==
    (entry = "pytest" /\ phase = "configured" /\ ~inTest /\ ~testRequested)
        => report_extra = NoExtra

-----------------------------------------------------------------------------
(* Claims about the metrics plugin *)

\* The step is the plugin's report of the call phase of the running test.
CallReport == item.running /\ item.stage = "call" /\ lastReport'.when = "call"

Raised == lastReport'.own.error
FailureRecorded(m, n, kind) ==
    /\ n.failed_queries = m.failed_queries + 1
    /\ n.error_types = [m.error_types EXCEPT ![kind] = @ + 1]
    /\ Len(n.error_details) = Len(m.error_details) + 1
    /\ SubSeq(n.error_details, 1, Len(m.error_details)) = m.error_details
    /\ LET d == n.error_details[Len(n.error_details)] IN
       d.test_name = item.id /\ d.error_type = kind
NoFailureRecorded(m, n) ==
    /\ n.failed_queries = m.failed_queries
    /\ n.error_types = m.error_types
    /\ n.error_details = m.error_details
OneSample(m, n) ==
    /\ Len(n.response_times) = Len(m.response_times) + 1
    /\ SubSeq(n.response_times, 1, Len(m.response_times)) = m.response_times

\* C13 as stated: every call phase that raised adds one to the failure
\* counter and to the count of its error kind and appends one error detail,
\* and every call phase appends one elapsed-time sample.
C13_EveryRaiseIsCounted ==
    [][CallReport =>
         \A m \in metrics, n \in metrics' :
            /\ OneSample(m, n)
            /\ \A kind \in Raised : FailureRecorded(m, n, kind)]_vars

\* C13, amended: every call phase appends one elapsed-time sample; the call
\* phase of a test marked `api` that raised adds one to the failure counter
\* and to the count of its error kind and appends one error detail, whether or
\* not the artifact is then written; every other call phase leaves the failure
\* counter, the kind counts and the error details as they were.
C13_ApiRaiseIsCounted ==
    [][CallReport =>
         \A m \in metrics, n \in metrics' :
            /\ OneSample(m, n)
            /\ \A kind \in Raised : item.api => FailureRecorded(m, n, kind)
            /\ (Raised = {} \/ ~item.api) => NoFailureRecorded(m, n)]_vars

\* Two tests marked `api` raised the same kind of error, the second with the
\* artifact write failing.
C13_Witness ==
    /\ lastReport.when = "call"
    /\ lastReport.own.error = {"HTTPError"}
    /\ item.api
    /\ mPhase = "aborted"
    /\ \E m \in metrics :
          /\ m.failed_queries = 2
          /\ m.error_types["HTTPError"] = 2
          /\ Len(m.error_details) = 2
          /\ Len(m.response_times) = 2

\* C14: the outcome reported for a phase of a test is the phase's own
\* outcome, also when the artifact write or the screenshot fails.
C14_ReportedOutcomeIsOwn ==
    lastReport.reported = lastReport.own

RECURSIVE SumOver(_, _)
SumOver(f, S) ==
    IF S = {} THEN 0
    ELSE LET k == CHOOSE x \in S : TRUE IN f[k] + SumOver(f, S \ {k})

\* C16: after session start the counters are zero and the lists empty until
\* a test has run; always 0 <= failed_queries <= total_queries <= number of
\* response-time samples, and the per-kind counts sum to failed_queries, which
\* is the number of error details.
C16_MetricsConsistent ==
    mPhase # "start" =>
        \A m \in metrics :
           /\ nTests = 0 =>
                 /\ m.total_queries = 0 /\ m.failed_queries = 0 /\ m.schema_violations = 0
                 /\ \A k \in DOMAIN m.error_types : m.error_types[k] = 0
                 /\ m.response_times = << >> /\ m.error_details = << >>
           /\ 0 <= m.failed_queries
           /\ m.failed_queries <= m.total_queries
           /\ m.total_queries <= Len(m.response_times)
           /\ SumOver(m.error_types, DOMAIN m.error_types) = m.failed_queries
           /\ m.failed_queries = Len(m.error_details)

\* A session in which an unmarked test raised and a test marked `api` raised:
\* two samples, one query, one failure.
C16_Witness ==
    /\ nTests = 2
    /\ mPhase = "session"
    /\ \E m \in metrics :
          /\ Len(m.response_times) = 2
          /\ m.total_queries = 1
          /\ m.failed_queries = 1
          /\ m.error_types["AssertionError"] = 1
          /\ m.error_details[1].test_name = 2

=============================================================================
